---- MODULE Spec2Model ----
(***************************************************************************)
(* RetroTrack: the inefficiency-detection and cost-aggregation pipeline of *)
(* the Flask application under src/app.                                    *)
(*                                                                         *)
(* State: the File table and the InefficientRoute table of the SQLite      *)
(* database, plus a record of the last request served.  One action per     *)
(* request handler; each handler runs to completion (one request at a      *)
(* time) and every database commit succeeds.                               *)
(*                                                                         *)
(* Units.  Durations and hour cells are whole seconds (8.2 h = 29520).     *)
(* A timestamp is [s |-> seconds, us |-> microseconds].  A value stored    *)
(* after round(x, 2) of an hour quantity is in hundredths of an hour       *)
(* (36 s each).  Money is kept as VND * hours in units of VND * 36 s.      *)
(***************************************************************************)
EXTENDS Integers, Sequences, FiniteSets, TLC

(***************************************************************************)
(* Program constants                                                       *)
(***************************************************************************)
\* total_seconds() / 3600.0 and secs / 3600.0
SecondsPerHour == 3600
\* the admission threshold "> 24", in hours
DelayThreshold == 24
\* seconds in one hundredth of an hour: the grain of round(hours, 2)
CentiHour == 36

ALLOWED_EXTENSIONS == {"pdf", "doc", "docx", "xls", "xlsx"}

(***************************************************************************)
(* Bounds of the model                                                     *)
(***************************************************************************)
\* largest File id handed out (File rows alive at once)
MaxFiles == 1
\* largest InefficientRoute id handed out (rows alive at once)
MaxRoutes == 2
\* most rows in a sheet of the workbooks given to parse_excel alone
MaxSheetRows == 2
Users == {"u1"}

(***************************************************************************)
(* Small helpers                                                           *)
(***************************************************************************)
Max(S) == CHOOSE x \in S : \A y \in S : y <= x

Min(S) == CHOOSE x \in S : \A y \in S : x <= y

RECURSIVE SortedSeq(_)
\* the elements of a finite set of integers in increasing order
SortedSeq(S) == IF S = {} THEN <<>> ELSE <<Min(S)>> \o SortedSeq(S \ {Min(S)})

RECURSIVE SumOver(_, _)
\* the sum of f[x] over the finite set S
SumOver(S, f) ==
    IF S = {} THEN 0
    ELSE LET x == CHOOSE y \in S : TRUE IN f[x] + SumOver(S \ {x}, f)

\* Python's Optional[float]: <<>> is None, <<v>> is the value v
None == <<>>

Some(v) == <<v>>

(***************************************************************************)
(* Spreadsheet cells and timestamps                                        *)
(***************************************************************************)
NullCell == [k |-> "null", n |-> 0, s |-> "nan", t |-> [s |-> 0, us |-> 0]]

Num(n) == [k |-> "num", n |-> n, s |-> "", t |-> [s |-> 0, us |-> 0]]

Str(s) == [k |-> "str", n |-> 0, s |-> s, t |-> [s |-> 0, us |-> 0]]

Time(sec, usec) == [k |-> "time", n |-> 0, s |-> "", t |-> [s |-> sec, us |-> usec]]

\* st + timedelta(hours = h), h given in seconds
AddHours(ts, h) == [s |-> ts.s + h, us |-> ts.us]

\* (a - b).total_seconds(), for timestamps with the same microsecond part
SecondsBetween(a, b) == a.s - b.s

\* str(pandas.Timestamp): the fraction is printed only when it is not zero
PyStr(ts) == [fmt |-> IF ts.us = 0 THEN "Y-m-d H:M:S" ELSE "Y-m-d H:M:S.f",
              s |-> ts.s, us |-> ts.us]

\* the text SQLite holds for a DateTime column: always with microseconds
SqliteText(ts) == [fmt |-> "Y-m-d H:M:S.f", s |-> ts.s, us |-> ts.us]

\* datetime.fromisoformat of a text produced by PyStr
FromIso(txt) == [s |-> txt.s, us |-> txt.us]

(***************************************************************************)
(* file_parser.py                                                          *)
(***************************************************************************)
\* to_float: float(str(value).replace(',', '').strip()), None on failure
to_float(c) == IF c.k \in {"num", "numstr"} THEN Some(c.n) ELSE None

\* Pairs <<expected, actual>> of hour cells whose double-precision difference
\* actual - expected lies above the exact decimal difference
\* (32.2 - 8.2 = 24.000000000000004, 32.2 - 2 = 30.200000000000003, ...).
FloatAbove == {<<7200, 115920>>, <<29520, 115920>>}

\* act_hours - exp_hours in double precision: the exact difference in seconds
\* and the sign of the rounding error
FloatSub(act, exp) ==
    [q |-> act - exp, e |-> IF <<exp, act>> \in FloatAbove THEN 1 ELSE 0]

\* diff > 24 on a double
ExceedsThreshold(d) ==
    \/ d.q > DelayThreshold * SecondsPerHour
    \/ d.q = DelayThreshold * SecondsPerHour /\ d.e > 0

RequiredCols == {"base", "ship", "st", "exp", "act", "ec", "ac", "mc"}

\* a null test that lets every row through
MutHasNull(row) == FALSE

\* "any(pd.isnull(row[col]) for col in required_cols)"
HasNull(row) == \E c \in RequiredCols : row[c].k = "null"

\* the route dict parse_excel appends for a retained row
ParsedRoute(row) ==
    [base_address |-> row.base.s,
     shipping_address |-> row.ship.s,
     starting_time |-> row.st.t,
     expected_delivery_time |-> AddHours(row.st.t, to_float(row.exp)[1]),
     actual_delivery_time |-> AddHours(row.st.t, to_float(row.act)[1]),
     expected_delivery_cost |-> to_float(row.ec)[1],
     actual_delivery_cost |-> to_float(row.ac)[1],
     max_delivery_cost |-> to_float(row.mc)[1],
     delay_hours |-> FloatSub(to_float(row.act)[1], to_float(row.exp)[1])]

RECURSIVE ParseRows(_, _, _)
\* the loop over df.iterrows(): the routes appended so far, and whether an
\* exception ended the parse
ParseRows(rows, i, acc) ==
    IF i > Len(rows) THEN [routes |-> acc, raised |-> FALSE]
    ELSE LET row == rows[i] IN
      IF HasNull(row) THEN ParseRows(rows, i + 1, acc)
      ELSE IF to_float(row.exp) = None \/ to_float(row.act) = None
        THEN ParseRows(rows, i + 1, acc)
      ELSE IF ~ExceedsThreshold(FloatSub(to_float(row.act)[1], to_float(row.exp)[1]))
        THEN ParseRows(rows, i + 1, acc)
      ELSE IF row.st.k # "time" THEN [routes |-> acc, raised |-> TRUE]
      ELSE IF None \in {to_float(row.ec), to_float(row.ac), to_float(row.mc)}
        THEN ParseRows(rows, i + 1, acc)
      ELSE ParseRows(rows, i + 1, Append(acc, ParsedRoute(row)))

RECURSIVE ParseSheets(_, _, _)
\* the loop over xls.sheet_names
ParseSheets(sheets, i, acc) ==
    IF i > Len(sheets) THEN acc
    ELSE IF ~sheets[i].has_required_cols THEN ParseSheets(sheets, i + 1, acc)
    ELSE LET r == ParseRows(sheets[i].rows, 1, acc) IN
         IF r.raised THEN r.routes ELSE ParseSheets(sheets, i + 1, r.routes)

\* parse_excel: result["inefficient_routes"]; an unreadable file gives []
parse_excel(wb) == IF ~wb.readable THEN <<>> ELSE ParseSheets(wb.sheets, 1, <<>>)

(***************************************************************************)
(* The uploads the model draws from                                        *)
(***************************************************************************)
\* the specification's scenario row: A -> B, 2 h expected, 30 h actual
RowScenario ==
    [base |-> Str("A"), ship |-> Str("B"), st |-> Time(0, 0),
     exp |-> Num(7200), act |-> Num(108000),
     ec |-> Num(1000), ac |-> Num(4000), mc |-> Num(200)]

\* a second shipment from A at the same starting time, to C
RowSecond ==
    [base |-> Str("A"), ship |-> Str("C"), st |-> Time(0, 0),
     exp |-> Num(7200), act |-> Num(108000),
     ec |-> Num(1000), ac |-> Num(4000), mc |-> Num(200)]

\* 8.2 h expected, 32.2 h actual: a delay of exactly 24 h in decimal
RowDecimal ==
    [base |-> Str("B"), ship |-> Str("C"), st |-> Time(0, 0),
     exp |-> Num(29520), act |-> Num(115920),
     ec |-> Num(1000), ac |-> Num(4000), mc |-> Num(200)]

\* 2 h expected, 26 h actual: a delay of exactly 24 h
RowBoundary ==
    [base |-> Str("B"), ship |-> Str("C"), st |-> Time(0, 0),
     exp |-> Num(7200), act |-> Num(93600),
     ec |-> Num(1000), ac |-> Num(4000), mc |-> Num(200)]

\* a starting time with a fraction of a second
RowFraction ==
    [base |-> Str("B"), ship |-> Str("C"), st |-> Time(0, 500000),
     exp |-> Num(7200), act |-> Num(108000),
     ec |-> Num(1000), ac |-> Num(4000), mc |-> Num(200)]

\* a second shipment from B at the same fractional starting time, to D
RowFractionSecond ==
    [base |-> Str("B"), ship |-> Str("D"), st |-> Time(0, 500000),
     exp |-> Num(7200), act |-> Num(108000),
     ec |-> Num(1000), ac |-> Num(4000), mc |-> Num(200)]

\* a shipment from C at the same fractional starting time
RowFractionOther ==
    [base |-> Str("C"), ship |-> Str("D"), st |-> Time(0, 500000),
     exp |-> Num(7200), act |-> Num(108000),
     ec |-> Num(1000), ac |-> Num(4000), mc |-> Num(200)]

Sheet(rows) == [has_required_cols |-> TRUE, rows |-> rows]

Unreadable == [readable |-> FALSE, sheets |-> <<>>]

\* the workbooks uploaded: one sheet each, or a file pandas cannot open
Workbooks ==
    {[readable |-> TRUE, sheets |-> <<Sheet(rs)>>] :
        rs \in {<<RowScenario>>, <<RowScenario, RowSecond>>, <<RowDecimal>>,
                <<RowFraction>>, <<RowBoundary>>}}
    \cup {Unreadable}

\* an upload request: the file's extension, whether it exceeds 10 MB, its content
UploadRequests ==
    {[ext |-> "xlsx", oversize |-> FALSE, wb |-> wb] : wb \in Workbooks}
    \cup {[ext |-> "pdf", oversize |-> FALSE, wb |-> Unreadable],
          [ext |-> "txt", oversize |-> FALSE, wb |-> Unreadable],
          [ext |-> "xlsx", oversize |-> TRUE, wb |-> Unreadable]}

\* the scenario row with one required cell left empty, for each column
RowsWithNull == {[RowScenario EXCEPT ![c] = NullCell] : c \in RequiredCols}

\* a cost cell that is not a number
RowBadCost ==
    [RowScenario EXCEPT !.base = Str("D"), !.mc = Str("n/a")]

\* a Starting Time cell that holds text, not a timestamp
RowBadStart ==
    [RowScenario EXCEPT !.base = Str("E"), !.st = Str("soon")]

\* expected and actual delivery time given as absolute timestamps: 2 h and
\* 30 h after the starting time
RowAbsolute ==
    [RowScenario EXCEPT !.base = Str("F"), !.exp = Time(7200, 0),
                        !.act = Time(108000, 0)]

\* the rows of the sheets given to parse_excel alone
SheetRows ==
    RowsWithNull \cup {RowScenario, RowDecimal, RowBoundary, RowBadCost,
                       RowBadStart, RowAbsolute}

\* a sheet without the required columns
OtherSheet == [has_required_cols |-> FALSE, rows |-> <<>>]

\* the workbooks given to parse_excel alone: a sheet of up to MaxSheetRows
\* rows, alone or followed by a second sheet holding the second shipment, or
\* preceded by a sheet without the required columns
ParseWorkbooks ==
    LET sheets == {Sheet(rs) : rs \in UNION {[1..n -> SheetRows] : n \in 0..MaxSheetRows}}
    IN {[readable |-> TRUE, sheets |-> <<sh>>] : sh \in sheets}
       \cup {[readable |-> TRUE, sheets |-> <<sh, Sheet(<<RowSecond>>)>>] : sh \in sheets}
       \cup {[readable |-> TRUE, sheets |-> <<OtherSheet, sh>>] : sh \in sheets}
       \cup {Unreadable}

(***************************************************************************)
(* The external geocoding and routing service                              *)
(***************************************************************************)
RouteOk(secs) == [k |-> "ok", secs |-> secs]

RouteFailed(kind) == [k |-> kind, secs |-> 0]

\* what the service answers for one record: the two geocode calls and the
\* routing call.  Travel times: 10 h 0 min 10 s, 29 h 59 min 50 s, 32.2 h.
\* A call fails with a non-200 status, with a payload without results, or by
\* raising (a network error, a malformed payload).
ExternalAnswers ==
    {[base |-> "ok", ship |-> "ok", route |-> RouteOk(t)] :
        t \in {36010, 107990, 115920}}
    \cup {[base |-> "status", ship |-> "ok", route |-> RouteOk(36010)],
          [base |-> "ok", ship |-> "empty", route |-> RouteOk(36010)],
          [base |-> "ok", ship |-> "ok", route |-> RouteFailed("raised")]}

VARIABLES
    files,    \* the File table: id -> [user_id, parsed_data]
    routes,   \* the InefficientRoute table: a set of rows, each with its id
    last      \* the request served last and what it did

vars == <<files, routes, last>>

(***************************************************************************)
(* The database                                                            *)
(***************************************************************************)
\* SQLite's INTEGER PRIMARY KEY: one more than the largest id in the table
NextFileId == IF DOMAIN files = {} THEN 1 ELSE Max(DOMAIN files) + 1

NextRouteId(rows) == IF rows = {} THEN 1 ELSE Max({r.id : r \in rows}) + 1

\* a query that forgets the filter on file_id
MutRoutesOf(rows, f) == rows

\* InefficientRoute.query.filter_by(file_id = f).all()
RoutesOf(rows, f) == {r \in rows : r.file_id = f}

\* json.dumps(parsed, default = str) then json.loads: timestamps become text
JsonRoute(route) ==
    [route EXCEPT !.starting_time = PyStr(@),
                  !.expected_delivery_time = PyStr(@),
                  !.actual_delivery_time = PyStr(@)]

JsonDumps(parsed) == [i \in 1..Len(parsed) |-> JsonRoute(parsed[i])]

(***************************************************************************)
(* geoapify.py                                                             *)
(***************************************************************************)
\* get_coordinates: a (lat, lon) pair on a 200 answer with results, else None
get_coordinates(outcome) == IF outcome = "ok" THEN Some("latlon") ELSE None

\* get_optimized_route_time, in seconds (the code divides by 3600.0): both
\* addresses are geocoded, then the route is asked for
get_optimized_route_time(a) ==
    IF get_coordinates(a.base) = None \/ get_coordinates(a.ship) = None THEN None
    ELSE IF a.route.k = "ok" THEN Some(a.route.secs)
    ELSE None

\* round(hours, 2) of a duration given in seconds, in hundredths of an hour
\* (the model's durations are never half way between two hundredths)
Round2(secs) == (2 * secs + CentiHour) \div (2 * CentiHour)

\* actual_dur: (actual_delivery_time - starting_time).total_seconds()
ActualDuration(r) == SecondsBetween(r.actual_delivery_time, r.starting_time)

\* the delay of a stored row: actual - expected delivery time
StoredDelay(r) == SecondsBetween(r.actual_delivery_time, r.expected_delivery_time)

\* a guard that asks for every record again
MutNeedsFill(r) == TRUE

\* a guard that also asks again for a record whose stored saving is zero
MutNeedsFillStale(r) ==
    \/ r.optimized_delivery_time = None
    \/ r.time_saved = None
    \/ r.time_saved = Some(0)

\* "if r.optimized_delivery_time is None or r.time_saved is None"
NeedsFill(r) == r.optimized_delivery_time = None \/ r.time_saved = None

\* a comparison that also commits an optimized time equal to the actual one
MutFaster(dur, opt) == dur >= opt

\* "if actual_dur > opt_time"
Faster(dur, opt) == dur > opt

\* whether the pass assigns the optimized fields of r under answer a
Commits(r, a) ==
    /\ NeedsFill(r)
    /\ get_optimized_route_time(a) # None
    /\ Faster(ActualDuration(r), get_optimized_route_time(a)[1])

\* the two assignments of update_cached_routes
Enriched(r, opt) ==
    [r EXCEPT !.optimized_delivery_time = Some(Round2(opt)),
              !.time_saved = Some(Round2(ActualDuration(r) - opt))]

\* one iteration of the loop of update_cached_routes
FillRow(r, a) ==
    IF Commits(r, a) THEN Enriched(r, get_optimized_route_time(a)[1]) ELSE r

\* the ids of the records of a batch the pass asks the service about
Asked(batch) == {r.id : r \in {x \in batch : NeedsFill(x)}}

\* a pass that the first failed external call aborts: the records after it, in
\* id order, are left as they were
MutUpdate(batch, ans) ==
    LET failed == {r.id : r \in {x \in batch : x.id \in DOMAIN ans
                        /\ get_optimized_route_time(ans[x.id]) = None}}
        reach(r) == r.id \in DOMAIN ans /\ \A i \in failed : r.id <= i
    IN [rows |-> {IF reach(r) THEN FillRow(r, ans[r.id]) ELSE r : r \in batch},
        updated |-> {r.id : r \in {x \in batch : reach(x) /\ Commits(x, ans[x.id])}}]

\* update_cached_routes(batch) under the service's answers ans, followed by
\* its commit: the batch afterwards and the ids of the records it assigned
update_cached_routes(batch, ans) ==
    [rows |-> {IF r.id \in DOMAIN ans THEN FillRow(r, ans[r.id]) ELSE r : r \in batch},
     updated |-> {r.id : r \in {x \in batch : x.id \in DOMAIN ans
                                               /\ Commits(x, ans[x.id])}}]

(***************************************************************************)
(* upload_routes.py                                                        *)
(***************************************************************************)
\* InefficientRoute(...) as upload builds it from a parsed route
UploadedRoute(id, fid, route) ==
    [id |-> id, file_id |-> fid,
     base_address |-> route.base_address,
     shipping_address |-> route.shipping_address,
     starting_time |-> route.starting_time,
     expected_delivery_time |-> route.expected_delivery_time,
     actual_delivery_time |-> route.actual_delivery_time,
     expected_delivery_cost |-> route.expected_delivery_cost,
     actual_delivery_cost |-> route.actual_delivery_cost,
     max_delivery_cost |-> route.max_delivery_cost,
     optimized_delivery_time |-> None,
     time_saved |-> None]

RECURSIVE InsertParsed(_, _, _, _)
\* upload's loop "for route in parsed['inefficient_routes']": every route
\* whose delay_hours exceeds the threshold is added
InsertParsed(rows, fid, parsed, i) ==
    IF i > Len(parsed) THEN rows
    ELSE IF ExceedsThreshold(parsed[i].delay_hours)
      THEN InsertParsed(rows \cup {UploadedRoute(NextRouteId(rows), fid, parsed[i])},
                        fid, parsed, i + 1)
    ELSE InsertParsed(rows, fid, parsed, i + 1)

NoAnswers == <<>>

\* the answers a request's record keeps: all of them, or none
Kept(rec, ans) == IF rec THEN ans ELSE NoAnswers

\* whether request l ran update_cached_routes
RanFill(l) ==
    \/ l.op \in {"show", "cost"}
    \/ l.op \in {"upload", "report"} /\ l.out = "ok"

\* what the request before did to file id f: ran the cache fill over its rows,
\* deleted it, or neither
After(f) ==
    IF f = 0 \/ last.file # f THEN "none"
    ELSE IF RanFill(last) THEN "fill"
    ELSE IF last.op = "delete" /\ last.out = "ok" THEN "delete"
    ELSE "none"

\* the record of a request: the handler, the session's user, the file id it
\* is about (0: none), what the request before did to that file, the service's
\* answers, the ids of the rows the cache fill assigned, the ids of the rows
\* inserted, the response, the summary produced; then the upload request, the
\* output of parse_excel, the rows the request holds in memory when it ends,
\* how the commit of the cache fill went, the cost table rendered, the calls,
\* assignments and commits of the cache-fill pass in their order, and the
\* requests in progress when requests are served at the same time
NoRequest == [ext |-> "", oversize |-> FALSE, wb |-> [readable |-> FALSE, sheets |-> <<>>]]

Served(op, u, f, ans, updated, added, out) ==
    [op |-> op, user |-> u, file |-> f, after |-> After(f), ans |-> ans,
     updated |-> updated, added |-> added, removed |-> {}, out |-> out,
     summary |-> None, req |-> NoRequest, parsed |-> None, rows |-> {},
     commit |-> "none", cost_data |-> {}, events |-> <<>>, open |-> <<>>]

Ids(rows) == {r.id : r \in rows}

\* POST /upload
Upload(u, req, rec) ==
    IF req.oversize
    THEN /\ last' = [Served("upload", u, 0, NoAnswers, {}, {}, "too_large")
                       EXCEPT !.req = req]
         /\ UNCHANGED <<files, routes>>
    ELSE IF req.ext \notin ALLOWED_EXTENSIONS
    THEN /\ last' = [Served("upload", u, 0, NoAnswers, {}, {}, "invalid_extension")
                       EXCEPT !.req = req]
         /\ UNCHANGED <<files, routes>>
    ELSE /\ NextFileId <= MaxFiles
         /\ LET fid == NextFileId IN
            IF req.ext \notin {"xls", "xlsx"}
            THEN /\ files' = files @@ (fid :> [user_id |-> u, parsed_data |-> None])
                 /\ last' = [Served("upload", u, fid, NoAnswers, {}, {}, "only_excel")
                               EXCEPT !.req = req]
                 /\ UNCHANGED routes
            ELSE LET parsed == parse_excel(req.wb)
                     inserted == InsertParsed(routes, fid, parsed, 1)
                     batch == RoutesOf(inserted, fid)
                 IN /\ \A id \in Ids(inserted) : id <= MaxRoutes
                    /\ \E ans \in [Asked(batch) -> ExternalAnswers] :
                         LET fill == update_cached_routes(batch, ans) IN
                         /\ files' = files @@
                               (fid :> [user_id |-> u,
                                        parsed_data |-> Some(JsonDumps(parsed))])
                         /\ routes' = (inserted \ batch) \cup fill.rows
                         /\ last' = [Served("upload", u, fid, Kept(rec, ans),
                                             fill.updated,
                                             Ids(inserted) \ Ids(routes), "ok")
                                       EXCEPT !.req = req,
                                              !.parsed = Some(parsed)]

\* a delete that removes the File row and leaves its routes behind
MutDeleteFile(u, f) ==
    IF f \notin DOMAIN files
    THEN /\ last' = Served("delete", u, f, NoAnswers, {}, {}, "404")
         /\ UNCHANGED <<files, routes>>
    ELSE IF files[f].user_id # u
    THEN /\ last' = Served("delete", u, f, NoAnswers, {}, {}, "not_authorized")
         /\ UNCHANGED <<files, routes>>
    ELSE /\ files' = [x \in DOMAIN files \ {f} |-> files[x]]
         /\ last' = [Served("delete", u, f, NoAnswers, {}, {}, "ok")
                       EXCEPT !.removed = Ids(RoutesOf(routes, f))]
         /\ UNCHANGED routes

\* POST /delete-file/<file_id>
DeleteFile(u, f) ==
    IF f \notin DOMAIN files
    THEN /\ last' = Served("delete", u, f, NoAnswers, {}, {}, "404")
         /\ UNCHANGED <<files, routes>>
    ELSE IF files[f].user_id # u
    THEN /\ last' = Served("delete", u, f, NoAnswers, {}, {}, "not_authorized")
         /\ UNCHANGED <<files, routes>>
    ELSE /\ routes' = routes \ RoutesOf(routes, f)
         /\ files' = [x \in DOMAIN files \ {f} |-> files[x]]
         /\ last' = [Served("delete", u, f, NoAnswers, {}, {}, "ok")
                       EXCEPT !.removed = Ids(RoutesOf(routes, f))]

(***************************************************************************)
(* inefficient_routes.py                                                   *)
(***************************************************************************)
\* InefficientRoute(...) as the POST pass builds it from a route of the
\* parsed_data blob
RederivedRoute(id, fid, route) ==
    [id |-> id, file_id |-> fid,
     base_address |-> route.base_address,
     shipping_address |-> route.shipping_address,
     starting_time |-> FromIso(route.starting_time),
     expected_delivery_time |-> FromIso(route.expected_delivery_time),
     actual_delivery_time |-> FromIso(route.actual_delivery_time),
     expected_delivery_cost |-> route.expected_delivery_cost,
     actual_delivery_cost |-> route.actual_delivery_cost,
     max_delivery_cost |-> route.max_delivery_cost,
     optimized_delivery_time |-> None,
     time_saved |-> None]

\* InefficientRoute.query.filter_by(file_id, base_address, starting_time).first()
\* with starting_time the text of the blob: SQLite compares it with the text
\* it stores for the column
Existing(rows, fid, route) ==
    {r \in rows : /\ r.file_id = fid
                  /\ r.base_address = route.base_address
                  /\ SqliteText(r.starting_time) = route.starting_time}

\* an upsert that overwrites the stored row it finds
MutUpsert(rows, fid, route) ==
    IF Existing(rows, fid, route) # {}
    THEN (rows \ Existing(rows, fid, route))
            \cup {RederivedRoute(r.id, fid, route) : r \in Existing(rows, fid, route)}
    ELSE IF ~ExceedsThreshold(route.delay_hours) THEN rows
    ELSE rows \cup {RederivedRoute(NextRouteId(rows), fid, route)}

\* the body of the loop over data["inefficient_routes"]: "if existing:
\* continue", then the threshold test, then db.session.add(new_ir)
Upsert(rows, fid, route) ==
    IF Existing(rows, fid, route) # {} THEN rows
    ELSE IF ~ExceedsThreshold(route.delay_hours) THEN rows
    ELSE rows \cup {RederivedRoute(NextRouteId(rows), fid, route)}

RECURSIVE RederiveFile(_, _, _, _)
\* the loop over data["inefficient_routes"] of one file; rows added earlier in
\* the pass are flushed before the next lookup
RederiveFile(rows, fid, data, i) ==
    IF i > Len(data) THEN rows
    ELSE RederiveFile(Upsert(rows, fid, data[i]), fid, data, i + 1)

RECURSIVE RederiveFiles(_, _, _)
\* the loop over the user's files that have a parsed_data blob
RederiveFiles(rows, fids, i) ==
    IF i > Len(fids) THEN rows
    ELSE IF files[fids[i]].parsed_data = None THEN RederiveFiles(rows, fids, i + 1)
    ELSE RederiveFiles(RederiveFile(rows, fids[i], files[fids[i]].parsed_data[1], 1),
                       fids, i + 1)

\* File.query.filter_by(user_id = u).all()
FilesOf(u) == SortedSeq({f \in DOMAIN files : files[f].user_id = u})

\* POST /inefficient
Rederive(u) ==
    LET after == RederiveFiles(routes, FilesOf(u), 1) IN
    /\ \A id \in Ids(after) : id <= MaxRoutes
    /\ routes' = after
    /\ last' = Served("rederive", u, 0, NoAnswers, {}, Ids(after) \ Ids(routes), "ok")
    /\ UNCHANGED files

\* GET /inefficient/<file_id>
ShowInefficient(u, f, rec) ==
    LET batch == RoutesOf(routes, f) IN
    \E ans \in [Asked(batch) -> ExternalAnswers] :
      LET fill == update_cached_routes(batch, ans) IN
      /\ routes' = (routes \ batch) \cup fill.rows
      /\ last' = Served("show", u, f, Kept(rec, ans), fill.updated, {}, "ok")
      /\ UNCHANGED files

(***************************************************************************)
(* report_utils.py and cost_analysis_routes.py                             *)
(***************************************************************************)
\* n / d rounded to the nearest integer (n >= 0, d > 0)
RoundDiv(n, d) == (2 * n + d) \div (2 * d)

\* the rows generate_summary counts: "delayed by > 24h", from the timestamps
CountedRows(rows) ==
    {r \in rows : StoredDelay(r) > DelayThreshold * SecondsPerHour}

\* a cost table that keeps a row only when its time_saved is truthy
MutPricedRows(rows) ==
    {r \in rows : r.time_saved # None /\ r.time_saved # Some(0)}

\* the rows of the cost table: those with an optimized time
PricedRows(rows) == {r \in rows : r.optimized_delivery_time # None}

\* max_delivery_cost * (actual_dur - opt_time), in VND * seconds
CostSaved(r) ==
    r.max_delivery_cost * ActualDuration(r)
        - r.max_delivery_cost * CentiHour * r.optimized_delivery_time[1]

\* the rendered cost rows: optimized_cost, actual_cost and cost_saved, each
\* through round(_, 2); money is in hundredths of a VND
CostTable(rows) ==
    {[route_id |-> r.id,
      optimized_cost |-> RoundDiv(r.max_delivery_cost * CentiHour
                                      * r.optimized_delivery_time[1], CentiHour),
      actual_cost |-> RoundDiv(r.max_delivery_cost * ActualDuration(r), CentiHour),
      cost_saved |-> RoundDiv(CostSaved(r), CentiHour)] : r \in PricedRows(rows)}

\* GET /cost-analysis/<file_id>
CostAnalysis(u, f, rec) ==
    LET batch == RoutesOf(routes, f) IN
    \E ans \in [Asked(batch) -> ExternalAnswers] :
      LET fill == update_cached_routes(batch, ans) IN
      /\ routes' = (routes \ batch) \cup fill.rows
      /\ last' = [Served("cost", u, f, Kept(rec, ans), fill.updated, {},
                          IF f \in DOMAIN files THEN "ok" ELSE "404")
                     EXCEPT !.cost_data = CostTable(fill.rows)]
      /\ UNCHANGED files

\* "total / inefficient_count if inefficient_count else 0", then round(_, 2)
Average(total, unit, count) == IF count # 0 THEN RoundDiv(total, unit * count) ELSE 0

\* the dict generate_summary returns for the rows of a file: times in
\* hundredths of an hour, money in hundredths of a VND
SummaryOf(rows) ==
    LET count == Cardinality(CountedRows(rows))
        total_delay == SumOver(rows, [r \in rows |-> StoredDelay(r)])
        saved == {r \in rows : r.time_saved # None /\ r.time_saved # Some(0)}
        total_saved == SumOver(saved, [r \in saved |-> r.time_saved[1]])
        priced == PricedRows(rows)
        total_cost_saved == SumOver(priced, [r \in priced |-> CostSaved(r)])
    IN [inefficient_routes |-> count,
        total_delayed_hours |-> RoundDiv(total_delay, CentiHour),
        avg_delayed_hours |-> Average(total_delay, CentiHour, count),
        total_time_saved |-> total_saved,
        total_cost_saved |-> RoundDiv(total_cost_saved, CentiHour),
        avg_cost_saved |-> Average(total_cost_saved, CentiHour, count),
        cost_table |-> CostTable(rows),
        ineff_table |-> Ids(rows)]

\* GET /report/<file_id> and the three downloads: generate_summary(file_id, user)
Report(u, f, rec) ==
    IF f \notin DOMAIN files
    THEN /\ last' = Served("report", u, f, NoAnswers, {}, {}, "404")
         /\ UNCHANGED <<files, routes>>
    ELSE LET batch == RoutesOf(routes, f) IN
         \E ans \in [Asked(batch) -> ExternalAnswers] :
           LET fill == update_cached_routes(batch, ans) IN
           /\ routes' = (routes \ batch) \cup fill.rows
           /\ last' = [Served("report", u, f, Kept(rec, ans), fill.updated, {}, "ok")
                         EXCEPT !.summary = Some(SummaryOf(fill.rows))]
           /\ UNCHANGED files

Init ==
    /\ files = <<>>
    /\ routes = {}
    /\ last = [op |-> "none", user |-> "u1", file |-> 0, after |-> "none",
               ans |-> NoAnswers, updated |-> {}, added |-> {}, removed |-> {},
               out |-> "ok", req |-> NoRequest, parsed |-> None, rows |-> {},
               commit |-> "none", cost_data |-> {}, events |-> <<>>, open |-> <<>>,
               summary |-> None]

\* every request handler, one request at a time; the records keep no answers
Next ==
    \/ \E u \in Users, req \in UploadRequests : Upload(u, req, FALSE)
    \/ \E u \in Users, f \in 1..MaxFiles : DeleteFile(u, f)
    \/ \E u \in Users : Rederive(u)
    \/ \E u \in Users, f \in 1..MaxFiles : ShowInefficient(u, f, FALSE)
    \/ \E u \in Users, f \in 1..MaxFiles : CostAnalysis(u, f, FALSE)
    \/ \E u \in Users, f \in 1..MaxFiles : Report(u, f, FALSE)

Spec == Init /\ [][Next]_vars

\* the handlers that run update_cached_routes, their records keeping the
\* answers of the external service
NextFill ==
    \/ \E u \in Users, req \in UploadRequests : Upload(u, req, TRUE)
    \/ \E u \in Users, f \in 1..MaxFiles : ShowInefficient(u, f, TRUE)
    \/ \E u \in Users, f \in 1..MaxFiles : CostAnalysis(u, f, TRUE)
    \/ \E u \in Users, f \in 1..MaxFiles : Report(u, f, TRUE)

SpecFill == Init /\ [][NextFill]_vars

\* an external call, an assignment of the optimized fields, or a statement
\* on the session, for the record id
Event(e, id, arg) == [e |-> e, id |-> id, arg |-> arg]

\* get_optimized_route_time that asks for the route whatever the geocoder said
MutCallsOf(id, a) ==
    <<Event("geocode", id, "base"), Event("geocode", id, "ship"),
      Event("route", id, "")>>

\* the external calls of get_optimized_route_time for record id: both
\* addresses are geocoded, "if not start_coords or not end_coords: return
\* None", then the routing request
CallsOf(id, a) ==
    <<Event("geocode", id, "base"), Event("geocode", id, "ship")>>
        \o (IF get_coordinates(a.base) = None \/ get_coordinates(a.ship) = None
            THEN <<>>
            ELSE <<Event("route", id, "")>>)

RECURSIVE LoopEvents(_, _, _)
\* what the loop of update_cached_routes does, record by record in the order
\* of the query: nothing for a populated record, else the calls and, when the
\* answer is faster, the assignment
LoopEvents(batch, ans, ids) ==
    IF ids = <<>> THEN <<>>
    ELSE LET r == CHOOSE x \in batch : x.id = Head(ids) IN
         (IF ~NeedsFill(r) THEN <<>>
          ELSE CallsOf(r.id, ans[r.id])
                 \o (IF Commits(r, ans[r.id]) THEN <<Event("assign", r.id, "")>>
                     ELSE <<>>))
            \o LoopEvents(batch, ans, Tail(ids))

\* a pass that commits after every record it assigned
MutPassEvents(batch, ans, commits) ==
    LET loop == LoopEvents(batch, ans, SortedSeq(Ids(batch)))
        RECURSIVE each(_)
        each(i) == IF i > Len(loop) THEN <<>>
                   ELSE IF loop[i].e = "assign"
                     THEN <<loop[i], Event("commit", 0, "")>> \o each(i + 1)
                   ELSE <<loop[i]>> \o each(i + 1)
    IN each(1)

\* one pass of update_cached_routes: the loop, then "if updated:" the commit,
\* and the rollback when the commit raised
PassEvents(batch, ans, commits) ==
    LET loop == LoopEvents(batch, ans, SortedSeq(Ids(batch))) IN
    loop \o (IF \A i \in DOMAIN loop : loop[i].e # "assign" THEN <<>>
             ELSE IF commits THEN <<Event("commit", 0, "")>>
             ELSE <<Event("commit", 0, ""), Event("rollback", 0, "")>>)

\* update_cached_routes(batch) when its commit may fail: the rows in the
\* database afterwards, the rows as the caller's objects show them, how the
\* commit went and whether the caller is told.  No commit is issued when no
\* record was assigned; a failed commit is rolled back and printed, the
\* session's objects are expired by the rollback and read the stored values
\* again
FillAndCommit(batch, ans, commits) ==
    LET fill == update_cached_routes(batch, ans) IN
    IF fill.updated = {}
    THEN [stored |-> batch, memory |-> batch, commit |-> "none", surfaced |-> FALSE]
    ELSE IF commits
    THEN [stored |-> fill.rows, memory |-> fill.rows, commit |-> "ok",
          surfaced |-> FALSE]
    ELSE [stored |-> batch, memory |-> batch, commit |-> "failed",
          surfaced |-> FALSE]

\* GET /inefficient/<file_id> when the commit of the cache fill may fail
ShowInefficientCommit(u, f, commits) ==
    LET batch == RoutesOf(routes, f) IN
    \E ans \in [Asked(batch) -> ExternalAnswers] :
      LET done == FillAndCommit(batch, ans, commits) IN
      /\ routes' = (routes \ batch) \cup done.stored
      /\ last' = [Served("show", u, f, ans, Ids(done.stored \ batch), {},
                         IF done.surfaced THEN "error" ELSE "ok")
                    EXCEPT !.rows = done.memory, !.commit = done.commit,
                           !.events = PassEvents(batch, ans, commits)]
      /\ UNCHANGED files

\* uploads, then views of a file during which the database may refuse the
\* commit of the cache fill
NextCommit ==
    \/ \E u \in Users, req \in UploadRequests : Upload(u, req, FALSE)
    \/ \E u \in Users, f \in 1..MaxFiles, commits \in BOOLEAN :
          ShowInefficientCommit(u, f, commits)

SpecCommit == Init /\ [][NextCommit]_vars

\* a commit of the pending rows that keeps the first of them when it fails
MutInsertCommit(rows, inserted, commits) ==
    IF commits \/ inserted = rows THEN inserted
    ELSE rows \cup {r \in inserted : r.id = NextRouteId(rows)}

\* db.session.commit() after upload's loop: the rows added by the loop are
\* written in one transaction; when it raises, db.session.rollback() leaves
\* the table as it was
InsertCommit(rows, inserted, commits) == IF commits THEN inserted ELSE rows

\* POST /upload when the commit of the InefficientRoute rows may fail: the
\* File row and its parsed_data are committed before, the exception skips the
\* cache fill and is answered with "Error processing the file."
UploadInsert(u, req, commits) ==
    IF commits \/ req.oversize \/ req.ext \notin {"xls", "xlsx"}
    THEN Upload(u, req, FALSE)
    ELSE LET fid == NextFileId
             parsed == parse_excel(req.wb)
             inserted == InsertParsed(routes, fid, parsed, 1)
             stored == InsertCommit(routes, inserted, commits)
         IN /\ NextFileId <= MaxFiles
            /\ \A id \in Ids(inserted) : id <= MaxRoutes
            /\ inserted # routes
            /\ files' = files @@
                  (fid :> [user_id |-> u, parsed_data |-> Some(JsonDumps(parsed))])
            /\ routes' = stored
            /\ last' = [Served("upload", u, fid, NoAnswers, {},
                                Ids(stored) \ Ids(routes), "error")
                          EXCEPT !.req = req,
                                 !.parsed = Some(parsed),
                                 !.commit = "failed"]

\* uploads during which the database may refuse the commit of the rows, and
\* deletions
NextInsert ==
    \/ \E u \in Users, req \in UploadRequests, commits \in BOOLEAN :
          UploadInsert(u, req, commits)
    \/ \E u \in Users, f \in 1..MaxFiles : DeleteFile(u, f)

SpecInsert == Init /\ [][NextInsert]_vars

\* two logged-in users
Owners == {"u1", "u2"}

\* what they upload: the scenario row alone, or with the second shipment
OwnerRequests ==
    {[ext |-> "xlsx", oversize |-> FALSE,
      wb |-> [readable |-> TRUE, sheets |-> <<Sheet(rs)>>]] :
        rs \in {<<RowScenario>>, <<RowScenario, RowSecond>>}}

\* the requests about a file, made by either user whoever owns it
NextOwners ==
    \/ \E u \in Owners, req \in OwnerRequests : Upload(u, req, FALSE)
    \/ \E u \in Owners, f \in 1..MaxFiles : DeleteFile(u, f)
    \/ \E u \in Owners, f \in 1..MaxFiles : ShowInefficient(u, f, FALSE)
    \/ \E u \in Owners, f \in 1..MaxFiles : CostAnalysis(u, f, FALSE)
    \/ \E u \in Owners, f \in 1..MaxFiles : Report(u, f, FALSE)

SpecOwners == Init /\ [][NextOwners]_vars

\* the two files of a table with rows of more than one file
FrameFiles == {1, 2}

FrameBooks ==
    {[readable |-> TRUE, sheets |-> <<Sheet(rs)>>] :
        rs \in {<<RowScenario>>, <<RowFraction>>}}

\* the database after two uploads, one file each: the rows of each upload as
\* its cache fill left them under the answers the service gave
InitFrame ==
    \E wb1 \in FrameBooks, wb2 \in FrameBooks :
      LET first == InsertParsed({}, 1, parse_excel(wb1), 1) IN
      \E ans1 \in [Asked(first) -> ExternalAnswers] :
        LET table == update_cached_routes(first, ans1).rows
            second == {r \in InsertParsed(table, 2, parse_excel(wb2), 1) : r.file_id = 2}
        IN \E ans2 \in [Asked(second) -> ExternalAnswers] :
             /\ routes = table \cup update_cached_routes(second, ans2).rows
             /\ files = (1 :> [user_id |-> "u1",
                               parsed_data |-> Some(JsonDumps(parse_excel(wb1)))])
                         @@ (2 :> [user_id |-> "u1",
                                   parsed_data |-> Some(JsonDumps(parse_excel(wb2)))])
             /\ last = [Served("given", "u1", 0, NoAnswers, {}, {}, "ok")
                          EXCEPT !.after = "none"]

\* the three views that run update_cached_routes over the rows of one file
NextFrame ==
    \/ \E u \in Users, f \in FrameFiles : ShowInefficient(u, f, TRUE)
    \/ \E u \in Users, f \in FrameFiles : CostAnalysis(u, f, TRUE)
    \/ \E u \in Users, f \in FrameFiles : Report(u, f, TRUE)

SpecFrame == InitFrame /\ [][NextFrame]_vars

(***************************************************************************)
(* Requests served at the same time.  Each request has its own session and *)
(* its own connection; it moves between the points where it reads or       *)
(* writes the database.  last.open holds the requests in progress.         *)
(***************************************************************************)
\* the requests that can be in progress at once
Procs == {1, 2}

\* what the service answers during a race: 10 h 0 min 10 s, 29 h 59 min 50 s,
\* or a failed routing call
RaceAnswers ==
    {[base |-> "ok", ship |-> "ok", route |-> RouteOk(t)] : t \in {36010, 107990}}
    \cup {[base |-> "ok", ship |-> "ok", route |-> RouteFailed("raised")]}

\* the uploads of a race: one shipment, or two from different bases, at a
\* fractional starting time (the lookup of the re-derive pass matches such
\* rows, and no two of them share a natural key)
RaceRequests ==
    {[ext |-> "xlsx", oversize |-> FALSE,
      wb |-> [readable |-> TRUE, sheets |-> <<Sheet(rs)>>]] :
        rs \in {<<RowFraction>>, <<RowFraction, RowFractionOther>>}}

\* a request in progress: where it is, its handler, user and file, the
\* records its session holds, the ids of those it assigned, the parsed
\* routes it is about to insert, the rows it added to its session, and
\* whether its connection holds SQLite's write lock
Idle ==
    [pc |-> "idle", op |-> "", user |-> "", file |-> 0, mem |-> {}, dirty |-> {},
     data |-> <<>>, pending |-> {}, lock |-> FALSE]

\* another connection is inside a write transaction: a write of p waits
Locked(p) == \E q \in Procs \ {p} : last.open[q].lock

\* the record of one step of request p; a step that commits also records the
\* records its session held
Stepped(p, op, u, f, updated, added, out, next) ==
    [Served(op, u, f, NoAnswers, updated, added, out)
        EXCEPT !.after = "none",
               !.open = [last.open EXCEPT ![p] = next],
               !.rows = IF op = "commit" THEN last.open[p].mem ELSE {}]

\* a flush that writes every record of the session, assigned or not
MutWriteBack(rows, mem, dirty) ==
    {IF r.id \in Ids(mem)
     THEN LET m == CHOOSE x \in mem : x.id = r.id
          IN [r EXCEPT !.optimized_delivery_time = m.optimized_delivery_time,
                       !.time_saved = m.time_saved]
     ELSE r : r \in rows}

\* the flush of a session whose records with ids dirty were assigned:
\* UPDATE inefficient_route SET optimized_delivery_time, time_saved WHERE id
WriteBack(rows, mem, dirty) ==
    {IF r.id \in dirty
     THEN LET m == CHOOSE x \in mem : x.id = r.id
          IN [r EXCEPT !.optimized_delivery_time = m.optimized_delivery_time,
                       !.time_saved = m.time_saved]
     ELSE r : r \in rows}

\* a view of file f loads the rows and runs the loop of update_cached_routes;
\* without an assignment the request ends, else the commit is still to come
FillBegin(p, u, f) ==
    /\ last.open[p].pc = "idle"
    /\ LET batch == RoutesOf(routes, f) IN
       \E ans \in [Asked(batch) -> RaceAnswers] :
         LET fill == update_cached_routes(batch, ans) IN
         last' = Stepped(p, "load", u, f, {}, {}, "ok",
                         IF fill.updated = {} THEN Idle
                         ELSE [Idle EXCEPT !.pc = "commit", !.op = "show",
                                           !.user = u, !.file = f,
                                           !.mem = fill.rows,
                                           !.dirty = fill.updated])
    /\ UNCHANGED <<files, routes>>

\* db.session.commit() of update_cached_routes: the UPDATEs of the assigned
\* records; when one of them matches no row the flush raises and the
\* transaction is rolled back
FillCommit(p) ==
    LET me == last.open[p] IN
    /\ me.pc = "commit"
    /\ ~Locked(p)
    /\ IF me.dirty \subseteq Ids(routes)
       THEN /\ routes' = WriteBack(routes, me.mem, me.dirty)
            /\ last' = [Stepped(p, "commit", me.user, me.file, me.dirty, {}, "ok", Idle)
                          EXCEPT !.commit = "ok"]
       ELSE /\ routes' = routes
            /\ last' = [Stepped(p, "commit", me.user, me.file, {}, {}, "ok", Idle)
                          EXCEPT !.commit = "failed"]
    /\ UNCHANGED files

\* POST /upload up to the loop over the parsed routes: the File row and its
\* parsed_data are committed and new_file.id is read back
UploadBegin(p, u, req) ==
    /\ last.open[p].pc = "idle"
    /\ ~Locked(p)
    /\ NextFileId <= MaxFiles
    /\ LET parsed == parse_excel(req.wb) IN
       /\ files' = files @@
             (NextFileId :> [user_id |-> u, parsed_data |-> Some(JsonDumps(parsed))])
       /\ last' = Stepped(p, "file", u, NextFileId, {}, {}, "ok",
                          [Idle EXCEPT !.pc = "insert", !.op = "upload",
                                       !.user = u, !.file = NextFileId,
                                       !.data = parsed])
    /\ UNCHANGED routes

\* the rest of upload but the last commit: the rows are inserted and
\* committed (SQLite does not check the foreign key), the rows of the file
\* are loaded and the loop of update_cached_routes runs
UploadRows(p) ==
    LET me == last.open[p]
        inserted == InsertParsed(routes, me.file, me.data, 1)
        batch == RoutesOf(inserted, me.file)
    IN /\ me.pc = "insert"
       /\ ~Locked(p)
       /\ \A id \in Ids(inserted) : id <= MaxRoutes
       /\ routes' = inserted
       /\ \E ans \in [Asked(batch) -> RaceAnswers] :
            LET fill == update_cached_routes(batch, ans) IN
            last' = Stepped(p, "insert", me.user, me.file, {},
                            Ids(inserted) \ Ids(routes), "ok",
                            IF fill.updated = {} THEN Idle
                            ELSE [Idle EXCEPT !.pc = "commit", !.op = "upload",
                                              !.user = me.user, !.file = me.file,
                                              !.mem = fill.rows,
                                              !.dirty = fill.updated])
       /\ UNCHANGED files

RECURSIVE CandidatesOfFiles(_, _)
\* the candidates of a re-derive pass in the order it meets them: for every
\* file of the user with a parsed_data blob, the routes of the blob
CandidatesOfFiles(fids, i) ==
    IF i > Len(fids) THEN <<>>
    ELSE (IF files[fids[i]].parsed_data = None THEN <<>>
          ELSE LET data == files[fids[i]].parsed_data[1]
               IN [k \in 1..Len(data) |-> [fid |-> fids[i], route |-> data[k]]])
            \o CandidatesOfFiles(fids, i + 1)

RECURSIVE UpsertAll(_, _, _)
\* the table as the session sees it after the first n candidates
UpsertAll(rows, cands, n) ==
    IF n = 0 THEN rows
    ELSE Upsert(UpsertAll(rows, cands, n - 1), cands[n].fid, cands[n].route)

RECURSIVE InsertAll(_, _, _)
\* the INSERTs of the rows added to a session, in the order they were added:
\* SQLite gives each the next id of the table as it then is
InsertAll(rows, pending, ids) ==
    IF ids = <<>> THEN rows
    ELSE LET r == CHOOSE x \in pending : x.id = Head(ids)
         IN InsertAll(rows \cup {[r EXCEPT !.id = NextRouteId(rows)]},
                      pending, Tail(ids))

\* POST /inefficient up to its commit: the user's files are loaded and every
\* candidate is looked up; a lookup made after a row was added flushes that
\* row, which opens the write transaction of the connection
RederiveBegin(p, u) ==
    LET cands == CandidatesOfFiles(FilesOf(u), 1)
        after == UpsertAll(routes, cands, Len(cands))
        flushed == Len(cands) > 0 /\ UpsertAll(routes, cands, Len(cands) - 1) # routes
    IN /\ last.open[p].pc = "idle"
       /\ flushed => ~Locked(p)
       /\ last' = Stepped(p, "lookup", u, 0, {}, {}, "ok",
                          IF after = routes THEN Idle
                          ELSE [Idle EXCEPT !.pc = "add", !.op = "rederive",
                                            !.user = u,
                                            !.pending = after \ routes,
                                            !.lock = flushed])
       /\ UNCHANGED <<files, routes>>

\* the commit of POST /inefficient: the rows added are inserted
RederiveCommit(p) ==
    LET me == last.open[p]
        after == InsertAll(routes, me.pending, SortedSeq(Ids(me.pending)))
    IN /\ me.pc = "add"
       /\ ~Locked(p)
       /\ \A id \in Ids(after) : id <= MaxRoutes
       /\ routes' = after
       /\ last' = Stepped(p, "rederive", me.user, 0, {}, Ids(after) \ Ids(routes),
                          "ok", Idle)
       /\ UNCHANGED files

\* POST /delete-file/<file_id> by the owner: the rows and the File row are
\* deleted in one transaction
DeleteOwned(p, u, f) ==
    /\ last.open[p].pc = "idle"
    /\ ~Locked(p)
    /\ f \in DOMAIN files
    /\ files[f].user_id = u
    /\ routes' = routes \ RoutesOf(routes, f)
    /\ files' = [x \in DOMAIN files \ {f} |-> files[x]]
    /\ last' = [Stepped(p, "delete", u, f, {}, {}, "ok", Idle)
                  EXCEPT !.removed = Ids(RoutesOf(routes, f))]

InitRace ==
    /\ files = <<>>
    /\ routes = {}
    /\ last = [Served("none", "u1", 0, NoAnswers, {}, {}, "ok")
                 EXCEPT !.after = "none", !.open = [p \in Procs |-> Idle]]

NextRace ==
    \/ \E p \in Procs, u \in Users, req \in RaceRequests : UploadBegin(p, u, req)
    \/ \E p \in Procs : UploadRows(p)
    \/ \E p \in Procs, u \in Users, f \in 1..MaxFiles : FillBegin(p, u, f)
    \/ \E p \in Procs : FillCommit(p)
    \/ \E p \in Procs, u \in Users : RederiveBegin(p, u)
    \/ \E p \in Procs : RederiveCommit(p)
    \/ \E p \in Procs, u \in Users, f \in 1..MaxFiles : DeleteOwned(p, u, f)

SpecRace == InitRace /\ [][NextRace]_vars

\* uploads and views of a file served at the same time: their cache-fill
\* passes interleave
NextFills ==
    \/ \E p \in Procs, u \in Users, req \in RaceRequests : UploadBegin(p, u, req)
    \/ \E p \in Procs : UploadRows(p)
    \/ \E p \in Procs, u \in Users, f \in 1..MaxFiles : FillBegin(p, u, f)
    \/ \E p \in Procs : FillCommit(p)

SpecFills == InitRace /\ [][NextFills]_vars

\* a workbook is given to parse_excel alone
InitParse ==
    /\ files = <<>>
    /\ routes = {}
    /\ \E u \in Users, wb \in ParseWorkbooks :
          last = [Served("given", u, 0, NoAnswers, {}, {}, "ok")
                    EXCEPT !.after = "none",
                           !.req = [ext |-> "xlsx", oversize |-> FALSE, wb |-> wb]]

\* parse_excel applied to the workbook given, then the loop of upload over its
\* output on an empty table
ParseWorkbook(u) ==
    LET parsed == parse_excel(last.req.wb) IN
    /\ last.op = "given"
    /\ last' = [Served("parse", u, 0, NoAnswers, {}, {}, "ok")
                  EXCEPT !.req = last.req,
                         !.parsed = Some(parsed),
                         !.rows = InsertParsed({}, 1, parsed, 1)]
    /\ UNCHANGED <<files, routes>>

NextParse == \E u \in Users : ParseWorkbook(u)

SpecParse == InitParse /\ [][NextParse]_vars

\* the uploads replayed: the readable workbooks, and one with two shipments
\* from B at the same fractional starting time
ReplayRequests ==
    {[ext |-> "xlsx", oversize |-> FALSE, wb |-> wb] :
        wb \in (Workbooks \ {Unreadable})
                \cup {[readable |-> TRUE,
                       sheets |-> <<Sheet(<<RowFraction, RowFractionSecond>>)>>]}}

\* the InefficientRoute rows of the file just uploaded are removed from the
\* table by hand, its File row and parsed_data blob staying
ClearRoutes(u, f) ==
    /\ last.op = "upload" /\ last.out = "ok" /\ last.file = f
    /\ f \in DOMAIN files
    /\ routes' = routes \ RoutesOf(routes, f)
    /\ last' = [Served("clear", u, f, NoAnswers, {}, {}, "ok")
                  EXCEPT !.removed = Ids(RoutesOf(routes, f)),
                         !.rows = RoutesOf(routes, f)]
    /\ UNCHANGED files

\* uploads and deletions, the table cleared for the file just uploaded,
\* re-derive passes
NextReplay ==
    \/ \E u \in Users, req \in ReplayRequests : Upload(u, req, FALSE)
    \/ \E u \in Users, f \in 1..MaxFiles : DeleteFile(u, f)
    \/ \E u \in Users, f \in 1..MaxFiles : ClearRoutes(u, f)
    \/ \E u \in Users : Rederive(u)

SpecReplay == Init /\ [][NextReplay]_vars

(***************************************************************************)
(* The stored rows                                                         *)
(***************************************************************************)
\* C1: every stored InefficientRoute row satisfies
\* actual_delivery_time - expected_delivery_time > 24 hours
AdmissionInvariant ==
    \A r \in routes : StoredDelay(r) > DelayThreshold * SecondsPerHour

\* C2: a re-derive pass (POST /inefficient) over a file whose routes were
\* inserted by its upload leaves the stored rows exactly as they were
RederiveIdempotent == [][last'.op = "rederive" => routes' = routes]_vars

\* the natural key of a stored row
NaturalKey(r) == <<r.file_id, r.base_address, r.starting_time>>

\* C3: no two stored rows share (file_id, base_address, starting_time)
NaturalKeyUnique ==
    \A r1, r2 \in routes : NaturalKey(r1) = NaturalKey(r2) => r1 = r2

\* the candidates of the parsed_data blob of the file of stored row r
CandidatesOf(r) ==
    IF r.file_id \in DOMAIN files /\ files[r.file_id].parsed_data # None
    THEN {files[r.file_id].parsed_data[1][i] :
            i \in DOMAIN files[r.file_id].parsed_data[1]}
    ELSE {}

\* the re-derive pass meets a candidate with the natural key of stored row r
Matched(r) ==
    \E c \in CandidatesOf(r) : /\ r.base_address = c.base_address
                               /\ r.starting_time = FromIso(c.starting_time)

\* C4: a re-derive pass leaves every stored row whose natural key one of its
\* candidates has completely unchanged, optimized fields included
UpsertKeeps ==
    [][last'.op = "rederive" => \A r \in routes : Matched(r) => r \in routes']_vars

\* a re-derive pass has met a candidate whose stored row has optimized fields
UpsertKeepsWitness ==
    /\ last.op = "rederive"
    /\ \E r \in routes : /\ Matched(r)
                         /\ r.optimized_delivery_time # None
                         /\ r.time_saved # None

(***************************************************************************)
(* The cache fill                                                          *)
(***************************************************************************)
\* the request served last ran update_cached_routes right after another
\* request that ran it over the rows of the same file
SecondRun == RanFill(last) /\ last.after = "fill"

SameAnswers(first, second) ==
    \A id \in DOMAIN second.ans :
        id \in DOMAIN first.ans /\ second.ans[id] = first.ans[id]

CacheMonotonic ==
    [][\A r \in routes, q \in routes' :
          q.id = r.id =>
            /\ r.optimized_delivery_time # None =>
                  q.optimized_delivery_time = r.optimized_delivery_time
            /\ r.time_saved # None => q.time_saved = r.time_saved]_vars

\* a cache fill ran over a file one of whose rows was populated before it
CacheMonotonicWitness ==
    /\ RanFill(last)
    /\ \E r \in RoutesOf(routes, last.file) :
          ~NeedsFill(r) /\ r.id \notin last.updated /\ r.time_saved = Some(0)

\* the rows the last cache fill asked the service about, with the travel time
\* the routing call returned
Routed ==
    {r \in routes : /\ RanFill(last)
                    /\ r.file_id = last.file
                    /\ r.id \in DOMAIN last.ans
                    /\ get_optimized_route_time(last.ans[r.id]) # None}

TravelTime(r) == get_optimized_route_time(last.ans[r.id])[1]

BothAbsent(r) == r.optimized_delivery_time = None /\ r.time_saved = None

\* C7 as stated: the fill stores optimized_delivery_time = t and
\* time_saved = actual_duration - t if and only if t < actual_duration
CommitsExactly ==
    \A r \in Routed :
        IF TravelTime(r) < ActualDuration(r)
        THEN /\ ~NeedsFill(r)
             /\ CentiHour * r.optimized_delivery_time[1] = TravelTime(r)
             /\ CentiHour * r.time_saved[1] = ActualDuration(r) - TravelTime(r)
        ELSE BothAbsent(r)

\* x hundredths of an hour is a nearest hundredth of secs seconds
Nearest(x, secs) ==
    /\ 2 * (CentiHour * x - secs) <= CentiHour
    /\ 2 * (secs - CentiHour * x) <= CentiHour

\* C7: the fill stores t and actual_duration - t, each rounded to two
\* decimals, if and only if t < actual_duration; else both stay absent
CommitsRounded ==
    \A r \in Routed :
        IF TravelTime(r) < ActualDuration(r)
        THEN /\ ~NeedsFill(r)
             /\ r.id \in last.updated
             /\ Nearest(r.optimized_delivery_time[1], TravelTime(r))
             /\ Nearest(r.time_saved[1], ActualDuration(r) - TravelTime(r))
        ELSE BothAbsent(r) /\ r.id \notin last.updated

\* a fill committed a travel time that is not a whole hundredth of an hour,
\* and left absent a row whose travel time was not below its actual duration
CommitsWitness ==
    /\ \E r \in Routed : /\ TravelTime(r) < ActualDuration(r)
                         /\ CentiHour * r.optimized_delivery_time[1] # TravelTime(r)
    /\ \E r \in Routed : TravelTime(r) >= ActualDuration(r)

\* the rows for which an external call of the last cache fill failed
Failed ==
    {r \in routes : /\ RanFill(last)
                    /\ r.file_id = last.file
                    /\ r.id \in DOMAIN last.ans
                    /\ get_optimized_route_time(last.ans[r.id]) = None}

\* C8: a failed geocode or routing call leaves its record's optimized fields
\* absent, every other record asked about is processed as its own answer
\* says, and the request is served
FailureIsolated ==
    /\ \A r \in Failed : BothAbsent(r) /\ r.id \notin last.updated
    /\ Failed # {} =>
         /\ last.out = "ok"
         /\ \A r \in Routed :
              r.id \in last.updated <=> TravelTime(r) < ActualDuration(r)

\* a call failed for one record and a later record of the batch was updated
FailureIsolatedWitness ==
    \E r \in Failed : \E q \in Routed : q.id > r.id /\ q.id \in last.updated

(***************************************************************************)
(* Deleting a file, and the summary                                        *)
(***************************************************************************)
\* the request served last asked for the summary of the file that the
\* request before it deleted
SummaryAfterDelete == last.op = "report" /\ last.after = "delete"

\* C9 as stated: a summary requested for a deleted file reports an
\* inefficient-route count of 0
DeletedSummaryCountsZero ==
    SummaryAfterDelete =>
        last.summary # None /\ last.summary[1].inefficient_routes = 0

\* C9: after delete_file(F) succeeds neither the File row nor any
\* InefficientRoute row of F remains, and a request for the summary of F is
\* answered 404, without a summary, and restores no row
DeleteCascades ==
    /\ last.op = "delete" /\ last.out = "ok" =>
          last.file \notin DOMAIN files /\ RoutesOf(routes, last.file) = {}
    /\ SummaryAfterDelete =>
          /\ last.out = "404"
          /\ last.summary = None
          /\ RoutesOf(routes, last.file) = {}

\* delete_file succeeded on a file that had stored rows
DeleteCascadesWitness ==
    last.op = "delete" /\ last.out = "ok" /\ last.removed # {}

\* the summary's total and its average agree: both are rounded to two
\* decimals, so average * count is total within (count + 1) / 2 hundredths
Agree(avg, total, count) ==
    /\ 2 * (avg * count - total) <= count + 1
    /\ 2 * (total - avg * count) <= count + 1

\* C10: in the summary generate_summary returns, avg_cost_saved and
\* avg_delayed_hours are the totals divided by the inefficient count when the
\* count is > 0, totals and averages are 0 when the count is 0, and the count
\* includes the rows without optimized fields
AveragesOfSummary ==
    last.summary # None =>
        LET s == last.summary[1] IN
        /\ s.inefficient_routes = Cardinality(RoutesOf(routes, last.file))
        /\ IF s.inefficient_routes > 0
           THEN /\ Agree(s.avg_delayed_hours, s.total_delayed_hours,
                         s.inefficient_routes)
                /\ Agree(s.avg_cost_saved, s.total_cost_saved,
                         s.inefficient_routes)
           ELSE /\ s.total_delayed_hours = 0 /\ s.avg_delayed_hours = 0
                /\ s.total_cost_saved = 0 /\ s.avg_cost_saved = 0

\* what is left of C10 when every row of the file satisfies the admission
\* invariant (C1)
AveragesOfAdmitted ==
    (\A r \in RoutesOf(routes, last.file) :
        StoredDelay(r) > DelayThreshold * SecondsPerHour) => AveragesOfSummary

\* the rows of the file of the summary served last
SummaryRows == RoutesOf(routes, last.file)

\* the sum of time_saved over the rows where it is present
TimeSavedOver(rows) ==
    LET present == {r \in rows : r.time_saved # None}
    IN SumOver(present, [r \in present |-> r.time_saved[1]])

\* C17: the inefficient-route count of generate_summary is the number of
\* rows stored for the file, optimized or not, and total_time_saved is the
\* sum of time_saved over the rows where it is present
SummaryCounts ==
    last.summary # None =>
        /\ last.summary[1].inefficient_routes = Cardinality(SummaryRows)
        /\ last.summary[1].total_time_saved = TimeSavedOver(SummaryRows)

\* what is left of C17 when every row of the file satisfies the admission
\* invariant (C1)
SummaryCountsOfAdmitted ==
    (\A r \in SummaryRows : StoredDelay(r) > DelayThreshold * SecondsPerHour)
        => SummaryCounts

\* the rows of a file whose optimized time is present
WithOptimized(rows) == {r \in rows : r.optimized_delivery_time # None}

\* max_delivery_cost * optimized time and max_delivery_cost * actual
\* duration, in VND * seconds
OptimizedCostOf(r) == r.max_delivery_cost * CentiHour * r.optimized_delivery_time[1]

ActualCostOf(r) ==
    r.max_delivery_cost * SecondsBetween(r.actual_delivery_time, r.starting_time)

\* table holds one entry for each of rows and no other, each with the three
\* figures of its row to the two decimals reported
EntriesMatch(table, rows) ==
    /\ Cardinality(table) = Cardinality(rows)
    /\ {e.route_id : e \in table} = {r.id : r \in rows}
    /\ \A e \in table : \A r \in rows :
          e.route_id = r.id =>
              /\ Nearest(e.optimized_cost, OptimizedCostOf(r))
              /\ Nearest(e.actual_cost, ActualCostOf(r))
              /\ Nearest(e.cost_saved, ActualCostOf(r) - OptimizedCostOf(r))

\* C18: the cost table of generate_summary and the one of cost_analysis hold
\* one entry for each row of the file whose optimized_delivery_time is
\* present and no other; the entry's optimized_cost, actual_cost and
\* cost_saved are max_delivery_cost * optimized time, max_delivery_cost *
\* actual duration and their difference, as reported to two decimals;
\* total_cost_saved is the sum of the differences over exactly those rows
CostTableOfPriced ==
    /\ last.summary # None =>
          LET priced == WithOptimized(SummaryRows) IN
          /\ EntriesMatch(last.summary[1].cost_table, priced)
          /\ Nearest(last.summary[1].total_cost_saved,
                     SumOver(priced, [r \in priced |->
                                        ActualCostOf(r) - OptimizedCostOf(r)]))
    /\ (last.op = "cost" /\ last.out = "ok") =>
          EntriesMatch(last.cost_data, WithOptimized(SummaryRows))

\* a report over a file with a row that has no optimized time and a row
\* whose optimized time equals its actual duration
CostTableWitness ==
    /\ last.op = "report"
    /\ last.summary # None
    /\ last.summary[1].cost_table # {}
    /\ \E r \in SummaryRows : r.optimized_delivery_time = None
    /\ \E r \in SummaryRows : r.time_saved = Some(0)

(***************************************************************************)
(* parse_excel                                                             *)
(***************************************************************************)
\* the rows of the sheets of the workbook parsed last that have the required
\* columns, as <<sheet, index>> positions
Positions ==
    {<<k, i>> \in (1..2) \X (1..(MaxSheetRows + 1)) :
        /\ last.op = "parse"
        /\ k \in DOMAIN last.req.wb.sheets
        /\ last.req.wb.sheets[k].has_required_cols
        /\ i \in DOMAIN last.req.wb.sheets[k].rows}

RowAt(p) == last.req.wb.sheets[p[1]].rows[p[2]]

\* route was built from the cells of row: addresses and starting time
BuiltFrom(route, row) ==
    /\ route.base_address = row.base.s
    /\ route.shipping_address = row.ship.s
    /\ route.starting_time = row.st.t

\* every required cell of the row holds a value
Complete(row) == \A c \in RequiredCols : row[c].k # "null"

Parseable(row) ==
    /\ Complete(row)
    /\ \A c \in {"exp", "act", "ec", "ac", "mc"} : row[c].k = "num"
    /\ row.st.k = "time"

\* actual hours minus expected hours of a row with numeric hour cells, in
\* seconds
HoursDifference(row) == row.act.n - row.exp.n

\* route is the route of row: its addresses, its starting time, and the
\* timestamps starting time + expected hours and starting time + actual hours
RouteOf(route, row) ==
    /\ BuiltFrom(route, row)
    /\ route.expected_delivery_time = [s |-> row.st.t.s + row.exp.n, us |-> row.st.t.us]
    /\ route.actual_delivery_time = [s |-> row.st.t.s + row.act.n, us |-> row.st.t.us]

\* how many routes of the output are the route of row
Emitted(row) ==
    Cardinality({i \in DOMAIN last.parsed[1] : RouteOf(last.parsed[1][i], row)})

\* how many times row occurs in the sheets parsed
Occurrences(row) == Cardinality({p \in Positions : RowAt(p) = row})

\* C12: parse_excel emits a complete, parseable row exactly once if its
\* actual hours minus expected hours is > 24 and never otherwise; a
\* difference of exactly 24 is not retained
ClassifiedExactly ==
    last.op = "parse" =>
        \A p \in Positions :
            Parseable(RowAt(p)) =>
                Emitted(RowAt(p)) =
                    IF HoursDifference(RowAt(p)) > DelayThreshold * SecondsPerHour
                    THEN Occurrences(RowAt(p))
                    ELSE 0

\* what is left of C12 for workbooks without a row whose Starting Time is
\* not a timestamp (C19) and without the 8.2 h / 32.2 h row (C1)
ClassifiedExactlyOtherwise ==
    (\A p \in Positions : RowAt(p) \notin {RowBadStart, RowDecimal})
        => ClassifiedExactly

\* C19: in parse_excel a row with an unparseable required field, a Starting
\* Time that is not a timestamp included, is the only row dropped for it:
\* every parseable row delayed by more than 24 h, of the same sheet and of
\* later sheets, is in the output as often as it occurs
OnlyThatRowDropped ==
    last.op = "parse" =>
        \A p \in Positions :
            (/\ Parseable(RowAt(p))
             /\ HoursDifference(RowAt(p)) > DelayThreshold * SecondsPerHour) =>
                Emitted(RowAt(p)) >= Occurrences(RowAt(p))

\* the part of C19 that holds: a row whose numeric cell cannot be read is
\* dropped alone, as long as no Starting Time of the workbook is unreadable
OnlyThatRowDroppedNumeric ==
    (\A p \in Positions : RowAt(p) # RowBadStart) => OnlyThatRowDropped

\* a sheet where a row with an unreadable cost is followed by an emitted row
NumericDropReached ==
    /\ last.op = "parse"
    /\ \E p, q \in Positions :
          /\ p[1] = q[1] /\ p[2] < q[2]
          /\ RowAt(p) = RowBadCost
          /\ Emitted(RowAt(q)) >= 1

\* a complete row whose delivery times are given in one of the two
\* encodings: numeric hour offsets, or absolute timestamps
Encoded(row) ==
    /\ Complete(row)
    /\ row.st.k = "time"
    /\ \A c \in {"ec", "ac", "mc"} : row[c].k = "num"
    /\ \/ row.exp.k = "num" /\ row.act.k = "num"
       \/ row.exp.k = "time" /\ row.act.k = "time"

\* the expected and the actual delivery timestamp a row denotes
ExpectedOf(row) ==
    IF row.exp.k = "num" THEN [s |-> row.st.t.s + row.exp.n, us |-> row.st.t.us]
    ELSE row.exp.t

ActualOf(row) ==
    IF row.act.k = "num" THEN [s |-> row.st.t.s + row.act.n, us |-> row.st.t.us]
    ELSE row.act.t

\* C16: parse_excel accepts the delivery times of a row as hour offsets or
\* as absolute timestamps: a row delayed by more than 24 h in either
\* encoding is emitted with the timestamps it denotes (for offsets,
\* starting_time + hours)
EncodingsAccepted ==
    last.op = "parse" =>
        \A p \in Positions :
            (/\ Encoded(RowAt(p))
             /\ ActualOf(RowAt(p)).s - ExpectedOf(RowAt(p)).s
                    > DelayThreshold * SecondsPerHour) =>
                \E i \in DOMAIN last.parsed[1] :
                    /\ BuiltFrom(last.parsed[1][i], RowAt(p))
                    /\ last.parsed[1][i].expected_delivery_time = ExpectedOf(RowAt(p))
                    /\ last.parsed[1][i].actual_delivery_time = ActualOf(RowAt(p))

\* the half of C16 about offsets: every route emitted is the route of a row
\* with numeric hour cells, its timestamps starting_time + hours
OffsetsResolved ==
    last.op = "parse" =>
        \A i \in DOMAIN last.parsed[1] :
            \E p \in Positions :
                Parseable(RowAt(p)) /\ RouteOf(last.parsed[1][i], RowAt(p))

(***************************************************************************)
(* Rejected uploads                                                        *)
(***************************************************************************)
\* the request served last uploaded a spreadsheet that cannot be read as a
\* workbook
UnreadableUpload ==
    /\ last.op = "upload"
    /\ ~last.req.oversize
    /\ last.req.ext \in {"xls", "xlsx"}
    /\ ~last.req.wb.readable

\* C13: an upload whose file cannot be read as a workbook is aborted and
\* persists nothing: afterwards no File row and no InefficientRoute row
\* exists for it
UnreadableAborts ==
    UnreadableUpload =>
        /\ last.out # "ok"
        /\ last.file \notin DOMAIN files
        /\ RoutesOf(routes, last.file) = {}

\* C14: an upload whose extension is neither xls nor xlsx is rejected and
\* leaves the File table and the InefficientRoute table unchanged
ExtensionRejected ==
    [][(last'.op = "upload" /\ last'.req.ext \notin {"xls", "xlsx"}) =>
          /\ last'.out # "ok"
          /\ files' = files
          /\ routes' = routes]_vars

(***************************************************************************)
(* A failed commit of the cache fill                                       *)
(***************************************************************************)
\* the rows for which the pass served last computed optimized values
Computed ==
    {r \in RoutesOf(routes, last.file) :
        r.id \in DOMAIN last.ans /\ Commits(r, last.ans[r.id])}

\* C15: when the commit at the end of update_cached_routes fails, the caller
\* is told, and the values computed in the pass are still on the records it
\* holds
FailureSurfaced ==
    last.commit = "failed" =>
        /\ last.out = "error"
        /\ \A r \in Computed : \E m \in last.rows : m.id = r.id /\ ~NeedsFill(m)

(***************************************************************************)
(* Replay of the parsed_data blob                                          *)
(***************************************************************************)
\* a stored row without its id and its optimized fields
Content(r) ==
    [r EXCEPT !.id = 0, !.optimized_delivery_time = None, !.time_saved = None]

\* as and bs hold the same rows as often, ids and optimized fields aside
SameContent(as, bs) ==
    \A c \in {Content(r) : r \in as \cup bs} :
        Cardinality({r \in as : Content(r) = c})
            = Cardinality({r \in bs : Content(r) = c})

\* C20: when the rows of a file were removed with its File row and blob
\* left, one re-derive pass recreates exactly the rows the upload had
\* inserted for the file, with the same natural keys, timestamps and costs,
\* and with the optimized fields absent
ReplayRoundTrip ==
    [][(last.op = "clear" /\ last'.op = "rederive") =>
          /\ SameContent(RoutesOf(routes', last.file), last.rows)
          /\ \A r \in RoutesOf(routes', last.file) :
                r.optimized_delivery_time = None /\ r.time_saved = None]_vars

\* what is left of C20 when no two rows the upload inserted share a natural
\* key (C3)
ReplayRoundTripOfDistinct ==
    [][(/\ last.op = "clear" /\ last'.op = "rederive"
        /\ \A r1, r2 \in last.rows : NaturalKey(r1) = NaturalKey(r2) => r1 = r2) =>
          /\ SameContent(RoutesOf(routes', last.file), last.rows)
          /\ \A r \in RoutesOf(routes', last.file) :
                r.optimized_delivery_time = None /\ r.time_saved = None]_vars

\* a re-derive pass has recreated rows removed for a file, among them one
\* with a fractional starting time
ReplayReached ==
    /\ last.op = "rederive"
    /\ last.added # {}
    /\ \E r \in routes : r.id \in last.added /\ r.starting_time.us # 0

(***************************************************************************)
(* The stored values of the cache                                          *)
(***************************************************************************)
\* C24: every stored row has optimized_delivery_time and time_saved both
\* absent, or both present with the stored time_saved > 0 and the stored
\* optimized_delivery_time below the row's actual duration
StoredValuesPositive ==
    \A r \in routes :
        \/ r.optimized_delivery_time = None /\ r.time_saved = None
        \/ /\ r.optimized_delivery_time # None
           /\ r.time_saved # None
           /\ r.time_saved[1] > 0
           /\ CentiHour * r.optimized_delivery_time[1] < ActualDuration(r)

\* what holds of the stored values: absent together or present together,
\* time_saved >= 0 and optimized_delivery_time <= the actual duration
StoredValuesTogether ==
    \A r \in routes :
        \/ r.optimized_delivery_time = None /\ r.time_saved = None
        \/ /\ r.optimized_delivery_time # None
           /\ r.time_saved # None
           /\ r.time_saved[1] >= 0
           /\ CentiHour * r.optimized_delivery_time[1] <= ActualDuration(r)

(***************************************************************************)
(* The external calls and the commit of one cache-fill pass                *)
(***************************************************************************)
\* the positions of the events of the pass served last that are of kind e
\* for record id
EventsAt(evs, e, id) == {i \in DOMAIN evs : evs[i].e = e /\ evs[i].id = id}

ExternalCalls(evs) == {i \in DOMAIN evs : evs[i].e \in {"geocode", "route"}}

\* C25: update_cached_routes issues no geocode call and no routing call for
\* a row whose optimized_delivery_time and time_saved are both present
\* before the pass; every call is for a row with an absent optimized field
NoRequery ==
    [][last'.op = "show" =>
          \A i \in ExternalCalls(last'.events) :
              \E r \in routes :
                  /\ r.id = last'.events[i].id
                  /\ r.file_id = last'.file
                  /\ (r.optimized_delivery_time = None \/ r.time_saved = None)]_vars

\* a pass over a file with a populated row and a row still absent made its
\* calls for the absent one
NoRequeryWitness ==
    /\ last.op = "show"
    /\ ExternalCalls(last.events) # {}
    /\ \E r \in RoutesOf(routes, last.file) :
          /\ r.time_saved = Some(0)
          /\ EventsAt(last.events, "geocode", r.id) = {}

\* C26: within one pass the commit is issued at most once, after every
\* record of the batch has been processed, and it is not issued when the
\* pass assigned no record
CommitBatched ==
    last.op = "show" =>
        LET evs == last.events
            commits == EventsAt(evs, "commit", 0)
        IN /\ Cardinality(commits) <= 1
           /\ \A c \in commits : \A i \in DOMAIN evs :
                  evs[i].e \in {"geocode", "route", "assign"} => i < c
           /\ (\A i \in DOMAIN evs : evs[i].e # "assign") => commits = {}

\* a pass that assigned two records and committed
CommitBatchedWitness ==
    /\ last.op = "show"
    /\ Cardinality({i \in DOMAIN last.events : last.events[i].e = "assign"}) = 2
    /\ EventsAt(last.events, "commit", 0) # {}
    /\ last.commit = "ok"

\* C27: for each row one pass makes at most two geocode calls, the base
\* address and then the shipping address, each at most once, and at most one
\* routing call, which comes after both geocode calls and only when both
\* returned coordinates
CallPattern ==
    last.op = "show" =>
        LET evs == last.events IN
        \A id \in {evs[i].id : i \in ExternalCalls(evs)} :
            LET geo == EventsAt(evs, "geocode", id)
                rts == EventsAt(evs, "route", id)
            IN /\ Cardinality(geo) <= 2
               /\ \A i, j \in geo : evs[i].arg = evs[j].arg => i = j
               /\ \A i, j \in geo :
                     (evs[i].arg = "base" /\ evs[j].arg = "ship") => i < j
               /\ Cardinality(rts) <= 1
               /\ \A k \in rts :
                     /\ Cardinality(geo) = 2
                     /\ \A i \in geo : i < k
                     /\ last.ans[id].base = "ok"
                     /\ last.ans[id].ship = "ok"

\* a pass in which a geocode call failed for one record, which got no
\* routing call, and the route was asked for another
CallPatternWitness ==
    /\ last.op = "show"
    /\ \E id \in DOMAIN last.ans :
          /\ last.ans[id].ship # "ok"
          /\ Cardinality(EventsAt(last.events, "geocode", id)) = 2
          /\ EventsAt(last.events, "route", id) = {}
    /\ \E id \in DOMAIN last.ans : EventsAt(last.events, "route", id) # {}

(***************************************************************************)
(* A failed commit of the rows of an upload                                *)
(***************************************************************************)
\* C28: the rows of one upload are committed in one transaction: when that
\* commit fails, none of the upload's rows is stored, the table is as it was
\* before, and the user is told
InsertAllOrNothing ==
    [][(last'.op = "upload" /\ last'.commit = "failed") =>
          /\ routes' = routes
          /\ RoutesOf(routes', last'.file) = {}
          /\ last'.out = "error"]_vars

\* an upload of two qualifying rows whose commit failed
InsertAllOrNothingWitness ==
    /\ last.op = "upload"
    /\ last.commit = "failed"
    /\ Len(last.parsed[1]) = 2
    /\ last.file \in DOMAIN files

(***************************************************************************)
(* Requests of a user who does not own the file                            *)
(***************************************************************************)
\* the step is a request about file f by a user who is not its owner
ByStranger(f) ==
    /\ f \in DOMAIN files
    /\ last'.file = f
    /\ last'.user # files[f].user_id
    /\ last'.op \in {"delete", "show", "cost", "report"}

\* C29: no delete, inefficient-routes view, cost analysis or report of file
\* F requested by a user who does not own F changes F's File row or any of
\* F's InefficientRoute rows, optimized fields included
StrangerChangesNothing ==
    [][\A f \in 1..MaxFiles :
          ByStranger(f) =>
              /\ f \in DOMAIN files'
              /\ files'[f] = files[f]
              /\ RoutesOf(routes', f) = RoutesOf(routes, f)]_vars

\* what holds of C29: such a request leaves the File row, the set of F's
\* rows and every field but the two optimized ones as they were, and a
\* delete changes nothing at all
StrangerChangesCacheOnly ==
    [][\A f \in 1..MaxFiles :
          ByStranger(f) =>
              /\ f \in DOMAIN files'
              /\ files'[f] = files[f]
              /\ {Content(r) : r \in RoutesOf(routes', f)}
                    = {Content(r) : r \in RoutesOf(routes, f)}
              /\ Ids(RoutesOf(routes', f)) = Ids(RoutesOf(routes, f))
              /\ last'.op = "delete" => routes' = routes]_vars

(***************************************************************************)
(* The frame of the cache fill                                             *)
(***************************************************************************)
\* a stored row without its optimized fields
Unfilled(r) == [r EXCEPT !.optimized_delivery_time = None, !.time_saved = None]

\* C30: update_cached_routes creates no row and deletes none, changes no
\* field of a row other than optimized_delivery_time and time_saved, and
\* leaves the rows that are not in its batch (the rows of other files) as
\* they were
FillFrame ==
    [][last'.op \in {"show", "cost", "report"} =>
          /\ files' = files
          /\ Ids(routes') = Ids(routes)
          /\ Cardinality(routes') = Cardinality(routes)
          /\ \A r \in routes : \E x \in routes' :
                /\ x.id = r.id
                /\ Unfilled(x) = Unfilled(r)
                /\ r.file_id # last'.file => x = r]_vars

\* a pass assigned a row of its file while a row of the other file, which
\* the service would be asked about, stayed without optimized fields
FillFrameWitness ==
    /\ last.op \in {"show", "cost", "report"}
    /\ last.updated # {}
    /\ \E r \in routes :
          /\ r.file_id # last.file
          /\ r.optimized_delivery_time = None
          /\ r.time_saved = None

(***************************************************************************)
(* Requests served at the same time                                        *)
(***************************************************************************)
\* both optimized fields of the row are present
Populated(r) == r.optimized_delivery_time # None /\ r.time_saved # None

\* C21: under any interleaving of cache-fill passes, each with its own
\* session, a row whose optimized fields are stored as present is never
\* written back to absent: no step leaves a populated row with an absent
\* optimized field
NeverUnpopulated ==
    [][\A r \in routes : \A x \in routes' :
          (x.id = r.id /\ Populated(r)) => Populated(x)]_vars

\* a pass committed its assignments while its session still held, as absent,
\* a row that another pass had populated in the meantime; the row is still
\* populated
NeverUnpopulatedWitness ==
    /\ last.op = "commit"
    /\ last.commit = "ok"
    /\ last.updated # {}
    /\ \E m \in last.rows : \E r \in routes :
          /\ m.id = r.id
          /\ ~Populated(m)
          /\ Populated(r)

\* no step stores a natural key a second time
KeyNeverTwice ==
    [][NaturalKeyUnique => NaturalKeyUnique']_vars

\* no step of a cache-fill pass replaces optimized fields that are present
FirstValueKept ==
    [][last'.op = "commit" =>
          \A r \in routes : \A x \in routes' :
              (x.id = r.id /\ Populated(r)) => x = r]_vars

\* C22: under any interleaving of two re-derive passes, or of an upload and
\* a re-derive pass, no (file_id, base_address, starting_time) ends up stored
\* twice, and under interleaved cache-fill passes the optimized fields of a
\* row are written only while they are absent
WritersUpsert ==
    [][/\ NaturalKeyUnique'
       /\ last'.op = "commit" =>
             \A r \in routes : \A x \in routes' :
                 (x.id = r.id /\ Populated(r)) => x = r]_vars

\* C23: in every reachable state, under interleavings of upload or
\* re-derive with delete_file too, the file_id of every InefficientRoute row
\* names an existing File row
NoOrphans ==
    \A r \in routes : r.file_id \in DOMAIN files

\* the part of C23 about delete_file itself: it removes the File row and all
\* rows of the file in the same step
DeleteBothOrNeither ==
    [][last'.op = "delete" =>
          /\ last'.file \notin DOMAIN files'
          /\ RoutesOf(routes', last'.file) = {}]_vars

====
